---- MODULE Spec2Model ----
(***************************************************************************)
(* Model of the gossip core (node/src/gossip.rs) and of the validation     *)
(* request endpoint (node/src/streams/server/mod.rs).                      *)
(*                                                                         *)
(* Tasks: GossipLoop (handle_incoming_messages), callers of                *)
(* listen/dial_peers/subscribe, producers calling StreamsGossip::publish,   *)
(* the validation collaborator (EventService) and request handlers of      *)
(* validate_event.  Shared state: the swarm behind one futures Mutex and   *)
(* the bounded futures mpsc channel of Orders.                             *)
(***************************************************************************)
EXTENDS Integers, Sequences, FiniteSets, TLC

\* ---------------------------------------------------------------- bounds

\* Capacity given to the mpsc channel of Orders (its "buffer").
Buffer == 1
\* Addresses in one dial_peers batch.
MaxPeers == 2

\* ------------------------------------------------------ program constants

\* bincode's fixed-width u64 length prefix of a Vec<u8>, in bytes.
LenPrefix == 8
\* Width of an H256 event identifier, in bytes.
IdBytes == 32

\* ------------------------------------------------------------------ sets

Callers == {"c1", "c2"}
Producers == {"p1", "p2"}
Collab == "collab"
Senders == Producers \cup {Collab}
Topics == {"WitnessedEvent", "Other"}
\* The Orders producers submit: Order(topic, payload).
Orders == {<<"WitnessedEvent", 1>>, <<"Other", 2>>}
\* Orders whose payload tells which producer submits them.
OrdersOf ==
    [p \in Producers |->
        IF p = "p1" THEN {<<"WitnessedEvent", 11>>, <<"Other", 12>>}
        ELSE {<<"WitnessedEvent", 21>>, <<"Other", 22>>}]
Owner(order) ==
    IF \E p \in Producers : order \in OrdersOf[p]
    THEN CHOOSE p \in Producers : order \in OrdersOf[p]
    ELSE Collab
\* The Order the collaborator submits while it handles a WitnessedEvent.
CollabOrder == <<"WitnessedEvent", 3>>

\* ------------------------------------------------- WitnessedEvent encoding

\* bincode writes a u64 as 8 little-endian bytes.
EncodeU64(n) ==
    [i \in 1..LenPrefix |->
        IF i = 1 THEN n % 256
        ELSE IF i = 2 THEN (n \div 256) % 256
        ELSE IF i = 3 THEN (n \div 65536) % 256
        ELSE 0]

\* A Vec<u8>: its length as u64, then its bytes.
EncodeVec(v) == EncodeU64(Len(v)) \o v

\* #[derive(Serialize)] on WitnessedEvent: the fields in declaration order.
\* H256's own Serialize impl lives in sp_core; the identifier is taken here
\* as its 32 bytes.
Serialize(we) == EncodeVec(we.signature) \o EncodeVec(we.pub_key) \o we.event_id

DecodeError == [ok |-> FALSE]

\* Reads a Vec<u8> at offset `at` (0-based) of `bytes`: [ok, val, next].
DecodeVec(bytes, at) ==
    IF at + LenPrefix > Len(bytes) THEN DecodeError
    ELSE LET hi == \E i \in 4..LenPrefix : bytes[at + i] # 0
             n  == bytes[at + 1] + 256 * bytes[at + 2] + 65536 * bytes[at + 3]
             from == at + LenPrefix
         IN IF hi \/ from + n > Len(bytes) THEN DecodeError
            ELSE [ok |-> TRUE, val |-> SubSeq(bytes, from + 1, from + n),
                  next |-> from + n]

\* bincode::deserialize::<WitnessedEvent>: signature, pub_key, then the
\* identifier; bytes after the identifier are not looked at.
Deserialize(bytes) ==
    LET s == DecodeVec(bytes, 0)
    IN IF ~s.ok THEN DecodeError
       ELSE LET k == DecodeVec(bytes, s.next)
            IN IF ~k.ok THEN DecodeError
               ELSE IF k.next + IdBytes > Len(bytes) THEN DecodeError
               ELSE [ok |-> TRUE,
                     val |-> [signature |-> s.val, pub_key |-> k.val,
                              event_id |-> SubSeq(bytes, k.next + 1,
                                                  k.next + IdBytes)]]

IdA == [i \in 1..IdBytes |-> i]
EventEmpty == [signature |-> <<>>, pub_key |-> <<>>, event_id |-> IdA]
EventFull == [signature |-> <<7>>, pub_key |-> <<9, 9>>, event_id |-> IdA]

\* Payloads a peer may gossip: encodings, and byte strings that are none.
Wire ==
    << Serialize(EventEmpty),
       Serialize(EventFull),
       Serialize(EventFull) \o <<0>>,
       SubSeq(Serialize(EventFull), 1, Len(Serialize(EventFull)) - 1),
       <<>>,
       EncodeU64(5) \o <<1, 2>> >>

WireIds == 1..Len(Wire)
\* The payloads of the messages the swarm delivers here.
InboundData == {1, 3, 4, 6}

\* The swarm events GossipLoop distinguishes.
SwarmEvents ==
    {[kind |-> k, data |-> 0] : k \in {"NewListenAddr", "Subscribed", "Other"}}
    \cup {[kind |-> "Message", data |-> d] : d \in InboundData}

\* ----------------------------------------------------------------- state

VARIABLES
    mutexLocked,    \* swarm: Arc<Mutex<Swarm>>: whether the lock is taken
    loopPc,         \* GossipLoop: "lock", "select", "await_handle", "ended"
    lastOutcome,    \* how the loop's latest iteration ended
    inbox,          \* the event the swarm has ready for select_next_some()
    queue,          \* the mpsc channel's message queue
    parkedQ,        \* the channel's queue of parked senders
    prodPc,         \* each producer inside StreamsGossip::publish or not
    rootAlive,      \* a Sender handle from which publish calls clone exists
    rcTerminated,   \* the Receiver has yielded None (is_terminated)
    outstanding,    \* history: Orders submitted and not yet published
    inOrder,        \* history: every publish carried the oldest such Order
    collabPc,       \* the collaborator's handle_witnessed_event
    collabEvent,    \* the WitnessedEvent handed to the collaborator
    callerPc,       \* each caller of listen / dial_peers / subscribe
    callerOp,       \* the operation the caller is in
    dialLeft,       \* addresses the caller's dial_peers has still to dial
    subscriptions,  \* topics the gossipsub behaviour is subscribed to
    reqPc,          \* each validate_event handler
    reqInput,       \* its request: remote address known, event_id bytes
    reqCalls,       \* identifiers it passed to handle_client_request
    reqResp,        \* its response
    reqRet,         \* what handle_client_request returned to it
    startPc,        \* the orchestrator: where ValidatedStreamsNode::run is
    startLog,       \* history: the startup steps performed, with results
    startPeers,     \* number of addresses in the configured peer set
    startLeft       \* addresses start()'s dial_peers has still to dial

loopVars == <<mutexLocked, loopPc, lastOutcome>>
chanVars == <<queue, parkedQ, prodPc, rootAlive, rcTerminated, outstanding, inOrder>>
collabVars == <<collabPc, collabEvent>>
callerVars == <<callerPc, callerOp, dialLeft, subscriptions>>
serverVars == <<reqPc, reqInput, reqCalls, reqResp, reqRet>>
startVars == <<startPc, startLog, startPeers, startLeft>>
vars == <<loopVars, inbox, chanVars, collabVars, callerVars, serverVars, startVars>>

NoEvent == [signature |-> <<>>, pub_key |-> <<>>, event_id |-> <<>>]

Handlers == {"h1", "h2"}
NoInput == [addr |-> FALSE, id |-> 0]
NoResponse == [kind |-> "none"]
NoReturn == [ok |-> FALSE, val |-> "none"]

\* An entry of the startup history.
Step(name, arg, res) == [step |-> name, arg |-> arg, res |-> res]

\* The history of a startup with no peer configured, in which every step
\* succeeded.
PlainStartup ==
    << Step("keys", 0, "ok"), Step("create", 0, "ok"), Step("collab", 0, "ok"),
       Step("listen", 0, "ok"), Step("subscribe", 0, "ok"),
       Step("spawn", 0, "ok"), Step("server", 0, "ok") >>

\* GossipLoop has been spawned by start(), after listen, dial_peers and
\* subscribe("WitnessedEvent"); no request has come in yet.
Init ==
    /\ mutexLocked = FALSE
    /\ loopPc = "lock"
    /\ lastOutcome = "none"
    /\ inbox = <<>>
    /\ queue = <<>>
    /\ parkedQ = <<>>
    /\ prodPc = [p \in Producers |-> "idle"]
    /\ rootAlive = TRUE
    /\ rcTerminated = FALSE
    /\ outstanding = <<>>
    /\ inOrder = TRUE
    /\ collabPc = "idle"
    /\ collabEvent = NoEvent
    /\ callerPc = [c \in Callers |-> "idle"]
    /\ callerOp = [c \in Callers |-> "none"]
    /\ dialLeft = [c \in Callers |-> 0]
    /\ subscriptions = {"WitnessedEvent"}
    /\ reqPc = [h \in Handlers |-> "idle"]
    /\ reqInput = [h \in Handlers |-> NoInput]
    /\ reqCalls = [h \in Handlers |-> <<>>]
    /\ reqResp = [h \in Handlers |-> NoResponse]
    /\ reqRet = [h \in Handlers |-> NoReturn]
    /\ startPc = "serving"
    /\ startLog = PlainStartup
    /\ startPeers = 0
    /\ startLeft = 0

\* ------------------------------------------------------- the swarm's lock

\* A lock that lets a task in while another holds it.
TryLock_Unguarded == TRUE

\* futures::lock::Mutex: lock() completes only when the lock is free.
TryLock == ~mutexLocked

\* Tasks inside a critical section of the swarm.
InCritical ==
    (IF loopPc \in {"select", "await_handle"} THEN {"loop"} ELSE {})
    \cup {c \in Callers : callerPc[c] = "cs"}

\* ----------------------------------------------------- the Order channel

\* Sender handles alive: the root handle and each publish call's clone.
LiveSenders ==
    (IF rootAlive THEN {"root"} ELSE {})
    \cup {p \in Producers : prodPc[p] = "flush"}
    \cup (IF collabPc = "flush" THEN {Collab} ELSE {})

IsParked(s) == \E i \in 1..Len(parkedQ) : parkedQ[i] = s

\* Sender::start_send: the message is queued; the sender parks itself when
\* the queue then holds more than the buffer.
ParkAfterSend(q, s) == IF Len(q) > Buffer THEN Append(parkedQ, s) ELSE parkedQ

\* A receiver that takes the newest message instead of the oldest.
RecvIndex_Last(q) == Len(q)

\* Receiver::next_message takes the message at this position of the queue.
RecvIndex(q) == 1

Without(q, i) == SubSeq(q, 1, i - 1) \o SubSeq(q, i + 1, Len(q))

\* A channel that hands out the newest message first.
Enqueue_Front(q, order) == <<order>> \o q

\* Sender::start_send pushes the message at the tail of the queue.
Enqueue(q, order) == Append(q, order)

\* `s` without the first of its elements equal to `x`.
RECURSIVE RemoveFirst(_, _)
RemoveFirst(s, x) ==
    IF s = <<>> THEN <<>>
    ELSE IF Head(s) = x THEN Tail(s)
    ELSE <<Head(s)>> \o RemoveFirst(Tail(s), x)

\* ... and unparks one parked sender, the longest parked.
UnparkOne(pq) == IF pq = <<>> THEN pq ELSE Tail(pq)

\* ------------------------------------------------------------ GossipLoop

\* A loop that unwraps the result of the swarm publish and of the hand-off.
NextPc_PanicOnError(outcome) ==
    IF outcome \in {"publish_err", "collab_err"} THEN "ended" ELSE "lock"

\* The loop has no exit: whatever the iteration's outcome, it goes back to
\* the top of `loop` and locks the swarm again.
NextPc(outcome) == "lock"

\* The end of the loop's body: the guard is dropped.
EndIteration(outcome) ==
    /\ loopPc' = NextPc(outcome)
    /\ mutexLocked' = FALSE
    /\ lastOutcome' = outcome

\* let mut guard = swarm.lock().await;
handle_incoming_messages_lock ==
    /\ loopPc = "lock"
    /\ TryLock
    /\ mutexLocked' = TRUE
    /\ loopPc' = "select"
    /\ lastOutcome' = "none"
    /\ UNCHANGED <<inbox, chanVars, collabVars, callerVars, serverVars, startVars>>

\* A select_biased!: the Order arm is polled only when no event is ready.
SelectArms_Biased ==
    IF inbox # <<>> THEN {"event"}
    ELSE IF ~rcTerminated /\ queue # <<>> THEN {"order"} ELSE {}

\* select!: the arms that can complete now.  A terminated future is skipped;
\* among the ready ones the macro picks pseudo-randomly.
SelectArms ==
    (IF inbox # <<>> THEN {"event"} ELSE {})
    \cup (IF ~rcTerminated /\ queue # <<>> THEN {"order"} ELSE {})

\* A handler that hands off whatever the decoding gave.
HandsOff_Always(r) == TRUE

\* Ok(witnessed_event) => handle_witnessed_event(..), Err(e) => log.
HandsOff(r) == r.ok

\* event = guard.select_next_some() => match event { .. }
handle_incoming_messages_event ==
    /\ loopPc = "select"
    /\ "event" \in SelectArms
    /\ LET e == Head(inbox)
           r == IF e.kind = "Message" THEN Deserialize(Wire[e.data])
                ELSE DecodeError
       IN /\ inbox' = Tail(inbox)
          /\ IF e.kind = "Message" /\ HandsOff(r)
             THEN \* events_service.handle_witnessed_event(..).await
                  /\ loopPc' = "await_handle"
                  /\ collabPc' = "handling"
                  /\ collabEvent' = IF r.ok THEN r.val ELSE NoEvent
                  /\ UNCHANGED <<mutexLocked, lastOutcome>>
             ELSE /\ EndIteration(CASE e.kind = "NewListenAddr" -> "new_listen_addr"
                                    [] e.kind = "Subscribed" -> "subscribed"
                                    [] e.kind = "Message" -> "decode_err"
                                    [] OTHER -> "other")
                  /\ UNCHANGED collabVars
    /\ UNCHANGED <<chanVars, callerVars, serverVars, startVars>>

\* handle_witnessed_event(..).await.ok(): the collaborator returns, its
\* result is discarded and the iteration ends.
handle_witnessed_event_returns(res) ==
    /\ loopPc = "await_handle"
    /\ collabPc \in {"handling", "sent"}
    /\ collabPc' = "idle"
    /\ collabEvent' = NoEvent
    /\ EndIteration(IF res = "ok" THEN "handled" ELSE "collab_err")
    /\ UNCHANGED <<inbox, chanVars, callerVars, serverVars, startVars>>

\* A loop that puts an Order back when its publish failed.
Consume_RetryOnError(q, i, res) == IF res = "err" THEN q ELSE Without(q, i)

\* The Order received has left the channel whatever publish(order.0,
\* order.1) returns: Ok(id) and Err(e) are both only logged.
Consume(q, i, res) == Without(q, i)

\* order = rc.select_next_some() => guard.behaviour_mut().publish(..)
handle_incoming_messages_order(res) ==
    /\ loopPc = "select"
    /\ "order" \in SelectArms
    /\ LET i == RecvIndex(queue)
           order == queue[i]
       IN /\ queue' = Consume(queue, i, res)
          /\ parkedQ' = UnparkOne(parkedQ)
          /\ inOrder' = (inOrder /\ outstanding # <<>> /\ order = Head(outstanding))
          /\ outstanding' = RemoveFirst(outstanding, order)
    /\ EndIteration(IF res = "ok" THEN "published" ELSE "publish_err")
    /\ UNCHANGED <<inbox, prodPc, rootAlive, rcTerminated, collabVars,
                   callerVars, serverVars, startVars>>

\* A loop that breaks when the Order stream ends.
AfterStreamEnd_Break == "ended"

\* Where the loop is once rc has yielded None: SelectNextSome stays pending
\* and the select! goes on waiting for the swarm, the guard still held.
AfterStreamEnd == "select"

\* rc.select_next_some() on a channel with no sender left and no message:
\* the stream ends and is terminated from then on.
handle_incoming_messages_closed ==
    /\ loopPc = "select"
    /\ ~rcTerminated
    /\ queue = <<>>
    /\ LiveSenders = {}
    /\ rcTerminated' = TRUE
    /\ loopPc' = AfterStreamEnd
    /\ mutexLocked' = (AfterStreamEnd = "select")
    /\ UNCHANGED <<lastOutcome, inbox, queue, parkedQ, prodPc, rootAlive,
                   outstanding, inOrder, collabVars, callerVars, serverVars, startVars>>

\* The swarm, which hands out one event at a time, has its next event ready.
swarm_event(e) ==
    /\ inbox = <<>>
    /\ inbox' = Append(inbox, e)
    /\ UNCHANGED <<loopVars, chanVars, collabVars, callerVars, serverVars, startVars>>

\* ------------------------------------------------------------- producers

\* A publish that unwraps the result of the send.
OnSendError_Unwrap == "panicked"

\* .unwrap_or_else(|e| log::error!(..)): the send's error is logged and
\* publish returns.
OnSendError == "logged"

\* A producer that is not inside publish: it has not called it yet, or its
\* latest call has returned (after the send, or after logging its error).
Returned == {"idle", "logged"}

\* StreamsGossip::publish(tx, topic, message): tx.send(Order(..)): the Order
\* is queued (a fresh clone of the Sender is never parked), then the send
\* waits to be flushed.  With the Receiver gone the send fails and is logged.
publish(p, order) ==
    /\ prodPc[p] \in Returned
    /\ rootAlive
    /\ IF loopPc = "ended"
       THEN /\ prodPc' = [prodPc EXCEPT ![p] = OnSendError]
            /\ UNCHANGED <<queue, parkedQ, outstanding>>
       ELSE /\ queue' = Enqueue(queue, order)
            /\ parkedQ' = ParkAfterSend(queue', p)
            /\ prodPc' = [prodPc EXCEPT ![p] = "flush"]
            /\ outstanding' = Append(outstanding, order)
    /\ UNCHANGED <<loopVars, inbox, rootAlive, rcTerminated, inOrder,
                   collabVars, callerVars, serverVars, startVars>>

\* The send's flush completes once the sender is not parked; publish
\* returns and its Sender is dropped.
publish_flush(p) ==
    /\ prodPc[p] = "flush"
    /\ ~IsParked(p)
    /\ prodPc' = [prodPc EXCEPT ![p] = "idle"]
    /\ UNCHANGED <<loopVars, inbox, queue, parkedQ, rootAlive, rcTerminated,
                   outstanding, inOrder, collabVars, callerVars, serverVars, startVars>>

\* The owner of the Sender drops it: no publish call can be made any more.
drop_sender ==
    /\ rootAlive
    /\ rootAlive' = FALSE
    /\ UNCHANGED <<loopVars, inbox, queue, parkedQ, prodPc, rcTerminated,
                   outstanding, inOrder, collabVars, callerVars, serverVars, startVars>>

\* The runtime drops the spawned task: the loop's future, with its guard,
\* its Receiver and the collaborator call it awaits, is dropped.  Dropping
\* the Receiver closes the channel, discards the queued Orders and wakes
\* every parked sender.
loop_dropped ==
    /\ loopPc # "ended"
    /\ loopPc' = "ended"
    /\ mutexLocked' = IF "loop" \in InCritical THEN FALSE ELSE mutexLocked
    /\ queue' = <<>>
    /\ parkedQ' = <<>>
    /\ collabPc' = "idle"
    /\ collabEvent' = NoEvent
    /\ UNCHANGED <<lastOutcome, inbox, prodPc, rootAlive, rcTerminated,
                   outstanding, inOrder, callerVars, serverVars, startVars>>

\* --------------------------------- callers of listen/dial_peers/subscribe

swarmFrame == <<loopPc, lastOutcome, inbox, chanVars, collabVars, serverVars, startVars>>

\* A task calls listen(addr), dial_peers(peers) or subscribe(topic) and comes
\* to its swarm.lock().await.
call(c) ==
    /\ callerPc[c] = "idle"
    /\ callerPc' = [callerPc EXCEPT ![c] = "wait"]
    /\ UNCHANGED <<mutexLocked, callerOp, dialLeft, subscriptions, swarmFrame>>

\* self.swarm.lock().await completes, in the operation `op` the caller is
\* in; a dial_peers call has n addresses to dial, or is at a later round.
swarm_lock(c, op, n) ==
    /\ callerPc[c] = "wait"
    /\ IF dialLeft[c] > 0 THEN op = "dial" /\ n = dialLeft[c] ELSE TRUE
    /\ TryLock
    /\ mutexLocked' = TRUE
    /\ callerPc' = [callerPc EXCEPT ![c] = "cs"]
    /\ callerOp' = [callerOp EXCEPT ![c] = op]
    /\ dialLeft' = [dialLeft EXCEPT ![c] = IF op = "dial" THEN n ELSE 0]
    /\ UNCHANGED <<subscriptions, swarmFrame>>

\* .listen_on(addr).expect(..): a failure panics; the guard is dropped.
listen(c, res) ==
    /\ callerPc[c] = "cs"
    /\ callerOp[c] = "listen"
    /\ mutexLocked' = FALSE
    /\ callerPc' = [callerPc EXCEPT ![c] = IF res = "ok" THEN "idle" ELSE "panicked"]
    /\ callerOp' = [callerOp EXCEPT ![c] = "none"]
    /\ UNCHANGED <<dialLeft, subscriptions, swarmFrame>>

\* A batch that stops at the first address that fails to dial.
AfterDial_AbortOnError(left, res) == IF res = "err" THEN 0 ELSE left - 1

\* for peer in peers { match ..dial(peer) { Err(e) => log, Ok(_) => log } }:
\* the addresses left after a dial, whatever its result.
AfterDial(left, res) == left - 1

\* One round of `for peer in peers`: dial(peer), log either result, drop
\* the guard, go on with the next peer.
dial_peers(c, res) ==
    /\ callerPc[c] = "cs"
    /\ callerOp[c] = "dial"
    /\ mutexLocked' = FALSE
    /\ dialLeft' = [dialLeft EXCEPT ![c] = AfterDial(@, res)]
    /\ callerPc' = [callerPc EXCEPT ![c] =
                      IF AfterDial(dialLeft[c], res) > 0 THEN "wait" ELSE "idle"]
    /\ callerOp' = [callerOp EXCEPT ![c] = "none"]
    /\ UNCHANGED <<subscriptions, swarmFrame>>

\* .behaviour_mut().subscribe(&topic).ok()
subscribe(c, res) ==
    /\ callerPc[c] = "cs"
    /\ callerOp[c] = "subscribe"
    /\ mutexLocked' = FALSE
    /\ subscriptions' = IF res = "ok" THEN subscriptions \cup {"WitnessedEvent"}
                        ELSE subscriptions
    /\ callerPc' = [callerPc EXCEPT ![c] = "idle"]
    /\ callerOp' = [callerOp EXCEPT ![c] = "none"]
    /\ UNCHANGED <<dialLeft, swarmFrame>>

\* ------------------------------------- the collaborator as a producer
\* EventService holds the Sender, so that it can enqueue Orders; here it
\* does so while it handles the WitnessedEvent the loop handed to it.

collab_publish ==
    /\ collabPc = "handling"
    /\ rootAlive
    /\ queue' = Enqueue(queue, CollabOrder)
    /\ parkedQ' = ParkAfterSend(queue', Collab)
    /\ outstanding' = Append(outstanding, CollabOrder)
    /\ collabPc' = "flush"
    /\ UNCHANGED <<loopVars, inbox, prodPc, rootAlive, rcTerminated, inOrder,
                   collabEvent, callerVars, serverVars, startVars>>

collab_flush ==
    /\ collabPc = "flush"
    /\ ~IsParked(Collab)
    /\ collabPc' = "sent"
    /\ UNCHANGED <<loopVars, inbox, chanVars, collabEvent, callerVars, serverVars, startVars>>

\* ------------------------------------------------ validate_event endpoint

\* event_id values a client may send.
EventIds ==
    << <<>>,
       <<5>>,
       [i \in 1..16 |-> 16 + i],
       [i \in 1..31 |-> i],
       IdA,
       [i \in 1..IdBytes |-> 255 - i],
       [i \in 1..33 |-> i] >>

\* Statuses and failure reasons handle_client_request may come back with.
Statuses == {"accepted", "pending"}
Reasons == {"bad signature", "store failure"}

\* A length check that lets longer identifiers through.
LengthOk_AtLeast(bytes) == Len(bytes) >= IdBytes

\* if event.event_id.len() == 32
LengthOk(bytes) == Len(bytes) = IdBytes

\* A conversion that reads the slice back to front.
FromSlice_Reversed(bytes) == [i \in 1..IdBytes |-> bytes[IdBytes + 1 - i]]

\* H256::from_slice: the 32 bytes of the slice, copied in order.
FromSlice(bytes) == [i \in 1..IdBytes |-> bytes[i]]

gossipFrame == <<loopVars, inbox, chanVars, collabVars, callerVars, startVars>>

\* A request arrives: without a remote address it is aborted; with an
\* event_id of 32 bytes handle_client_request is called; else the
\* io::Error "invalid event_id sent" is returned.
validate_event(h, addr, id) ==
    /\ reqPc[h] = "idle"
    /\ reqInput' = [reqInput EXCEPT ![h] = [addr |-> addr, id |-> id]]
    /\ IF ~addr
       THEN /\ reqResp' = [reqResp EXCEPT ![h] =
                  [kind |-> "aborted",
                   msg |-> "Malformed Request, can't retreive Origin address"]]
            /\ reqPc' = [reqPc EXCEPT ![h] = "done"]
            /\ reqCalls' = [reqCalls EXCEPT ![h] = <<>>]
       ELSE IF LengthOk(EventIds[id])
       THEN /\ reqCalls' = [reqCalls EXCEPT ![h] = <<FromSlice(EventIds[id])>>]
            /\ reqPc' = [reqPc EXCEPT ![h] = "called"]
            /\ reqResp' = [reqResp EXCEPT ![h] = NoResponse]
       ELSE /\ reqResp' = [reqResp EXCEPT ![h] =
                  [kind |-> "unknown", msg |-> "invalid event_id sent"]]
            /\ reqPc' = [reqPc EXCEPT ![h] = "done"]
            /\ reqCalls' = [reqCalls EXCEPT ![h] = <<>>]
    /\ UNCHANGED <<reqRet, gossipFrame>>

\* An endpoint that answers a failed validation with the invalid-request
\* error.
Response_ErrorAsInvalid(ok, val) ==
    IF ok THEN [kind |-> "ok", status |-> val]
    ELSE [kind |-> "unknown", msg |-> "invalid event_id sent"]

\* Ok(Response::new(ValidateEventResponse { status: ...await
\* .map_err(|e| Status::aborted(e.to_string()))? }))
Response(ok, val) ==
    IF ok THEN [kind |-> "ok", status |-> val]
    ELSE [kind |-> "aborted", msg |-> val]

\* handle_client_request(..).await returned: Ok(status) becomes the
\* response, Err(e) becomes Status::aborted(e.to_string()).
handle_client_request_returns(h, ok, val) ==
    /\ reqPc[h] = "called"
    /\ reqRet' = [reqRet EXCEPT ![h] = [ok |-> ok, val |-> val]]
    /\ reqResp' = [reqResp EXCEPT ![h] = Response(ok, val)]
    /\ reqPc' = [reqPc EXCEPT ![h] = "done"]
    /\ UNCHANGED <<reqInput, reqCalls, gossipFrame>>

\* The response has been sent; the handler serves the next request.
respond(h) ==
    /\ reqPc[h] = "done"
    /\ reqPc' = [reqPc EXCEPT ![h] = "idle"]
    /\ reqInput' = [reqInput EXCEPT ![h] = NoInput]
    /\ reqCalls' = [reqCalls EXCEPT ![h] = <<>>]
    /\ reqResp' = [reqResp EXCEPT ![h] = NoResponse]
    /\ reqRet' = [reqRet EXCEPT ![h] = NoReturn]
    /\ UNCHANGED gossipFrame

\* ------------------------------------------- the orchestrator's startup
\* ValidatedStreamsNode::run, and StreamsGossip::start which it awaits.  No
\* other task uses the swarm before start() returns, so each of start()'s
\* lock().await completes at once.

startFrame == <<mutexLocked, lastOutcome, inbox, chanVars, collabVars,
                callerPc, callerOp, dialLeft, serverVars, startPeers>>

Logged(name) == \E i \in 1..Len(startLog) : startLog[i].step = name

\* tokio::time::sleep(Duration::from_millis(3000)).await
run_sleep ==
    /\ startPc = "sleep"
    /\ startPc' = "keyvault"
    /\ UNCHANGED <<startFrame, loopPc, subscriptions, startLog, startLeft>>

\* A run that goes on without validator keys.
AfterKeyVault_Ignore(res) == "create"

\* if let Ok(x) = KeyVault::new(..) { x } else { log; return }
AfterKeyVault(res) == IF res = "ok" THEN "create" ELSE "returned"

run_keyvault(res) ==
    /\ startPc = "keyvault"
    /\ startLog' = Append(startLog, Step("keys", 0, res))
    /\ startPc' = AfterKeyVault(res)
    /\ UNCHANGED <<startFrame, loopPc, subscriptions, startLeft>>

\* let (streams_gossip, streams_gossip_service) = StreamsGossip::create();
run_create ==
    /\ startPc = "create"
    /\ startLog' = Append(startLog, Step("create", 0, "ok"))
    /\ startPc' = "events_service"
    /\ UNCHANGED <<startFrame, loopPc, subscriptions, startLeft>>

\* let events_service = Arc::new(EventService::new(..).await); it is then
\* passed to start() as an argument.
run_events_service ==
    /\ startPc = "events_service"
    /\ startLog' = Append(startLog, Step("collab", 0, "ok"))
    /\ startPc' = "listen"
    /\ UNCHANGED <<startFrame, loopPc, subscriptions, startLeft>>

\* A listen that only logs a failure to bind.
AfterListen_LogOnly(res) == "peers"

\* self.listen(self_addr).await: listen_on(..).expect(..) panics on failure.
AfterListen(res) == IF res = "ok" THEN "peers" ELSE "panicked"

start_listen(res) ==
    /\ startPc = "listen"
    /\ TryLock
    /\ startLog' = Append(startLog, Step("listen", 0, res))
    /\ startPc' = AfterListen(res)
    /\ UNCHANGED <<startFrame, loopPc, subscriptions, startLeft>>

\* self.dial_peers(peers.clone()).await: one round of its `for peer in peers`.
start_dial(res) ==
    /\ startPc = "peers"
    /\ startLeft > 0
    /\ TryLock
    /\ startLog' = Append(startLog, Step("dial", startPeers - startLeft + 1, res))
    /\ startLeft' = AfterDial(startLeft, res)
    /\ UNCHANGED <<startFrame, loopPc, subscriptions, startPc>>

\* self.subscribe(IdentTopic::new("WitnessedEvent")).await, once dial_peers
\* has returned.
start_subscribe(res) ==
    /\ startPc = "peers"
    /\ startLeft = 0
    /\ TryLock
    /\ subscriptions' = IF res = "ok" THEN subscriptions \cup {"WitnessedEvent"}
                        ELSE subscriptions
    /\ startLog' = Append(startLog, Step("subscribe", 0, res))
    /\ startPc' = "spawn"
    /\ UNCHANGED <<startFrame, loopPc, startLeft>>

\* A start() that spawns the loop as soon as it is listening.
SpawnReady_Early == startPc \in {"peers", "spawn"}

\* tokio::spawn(..) is the last statement of start().
SpawnReady == startPc = "spawn"

\* tokio::spawn(async move { handle_incoming_messages(..).await });
start_spawn ==
    /\ SpawnReady
    /\ loopPc' = "lock"
    /\ startLog' = Append(startLog, Step("spawn", 0, "ok"))
    /\ startPc' = "server"
    /\ UNCHANGED <<startFrame, subscriptions, startLeft>>

\* tokio::spawn(Server::builder()..serve(..)).await: Ok(_) => (), also when
\* serve returned an error.
run_server(res) ==
    /\ startPc = "server"
    /\ startLog' = Append(startLog, Step("server", 0, res))
    /\ startPc' = IF res = "ok" THEN "serving" ELSE "returned"
    /\ UNCHANGED <<startFrame, loopPc, subscriptions, startLeft>>

\* ---------------------------------------------------------- specification

Results == {"ok", "err"}

OrderArm == \E res \in Results : handle_incoming_messages_order(res)

LoopStep ==
    \/ handle_incoming_messages_lock
    \/ handle_incoming_messages_event
    \/ OrderArm
    \/ handle_incoming_messages_closed

CollabStep == \E res \in Results : handle_witnessed_event_returns(res)

Submit == \E p \in Producers, o \in Orders : publish(p, o)

SubmitOwn == \E p \in Producers : \E o \in OrdersOf[p] : publish(p, o)

ProducerStep ==
    \/ Submit
    \/ \E p \in Producers : publish_flush(p)
    \/ drop_sender

CallerOpStep(C) ==
    \/ \E c \in C, res \in Results : listen(c, res)
    \/ \E c \in C, res \in Results : dial_peers(c, res)
    \/ \E c \in C, res \in Results : subscribe(c, res)

CallerLock(C) ==
    \/ \E c \in C, op \in {"listen", "subscribe"} : swarm_lock(c, op, 0)
    \/ \E c \in C, n \in 1..MaxPeers : swarm_lock(c, "dial", n)

CallerStep(C) ==
    \/ \E c \in C : call(c)
    \/ CallerLock(C)
    \/ CallerOpStep(C)

SwarmStep == \E e \in SwarmEvents : swarm_event(e)

\* The gossip core: the loop, the collaborator it hands events to, the
\* producers, concurrent callers of the swarm, and the swarm's events.
Next == LoopStep \/ CollabStep \/ ProducerStep \/ CallerStep(Callers) \/ SwarmStep

Spec == Init /\ [][Next]_vars

\* The same, with the collaborator enqueuing an Order while it handles a
\* WitnessedEvent.
ReentrantNext == Next \/ collab_publish \/ collab_flush

ReentrantSpec == Init /\ [][ReentrantNext]_vars

\* The request/response endpoint.
ServerNext ==
    \/ \E h \in Handlers, addr \in BOOLEAN, id \in 1..Len(EventIds) :
           validate_event(h, addr, id)
    \/ \E h \in Handlers, s \in Statuses : handle_client_request_returns(h, TRUE, s)
    \/ \E h \in Handlers, r \in Reasons : handle_client_request_returns(h, FALSE, r)
    \/ \E h \in Handlers : respond(h)

ServerSpec == Init /\ [][ServerNext]_vars

\* The node before run(): nothing is built, the loop is not spawned.
StartInit ==
    /\ mutexLocked = FALSE
    /\ loopPc = "unspawned"
    /\ lastOutcome = "none"
    /\ inbox = <<>>
    /\ queue = <<>>
    /\ parkedQ = <<>>
    /\ prodPc = [p \in Producers |-> "idle"]
    /\ rootAlive = TRUE
    /\ rcTerminated = FALSE
    /\ outstanding = <<>>
    /\ inOrder = TRUE
    /\ collabPc = "idle"
    /\ collabEvent = NoEvent
    /\ callerPc = [c \in Callers |-> "idle"]
    /\ callerOp = [c \in Callers |-> "none"]
    /\ dialLeft = [c \in Callers |-> 0]
    /\ subscriptions = {}
    /\ reqPc = [h \in Handlers |-> "idle"]
    /\ reqInput = [h \in Handlers |-> NoInput]
    /\ reqCalls = [h \in Handlers |-> <<>>]
    /\ reqResp = [h \in Handlers |-> NoResponse]
    /\ reqRet = [h \in Handlers |-> NoReturn]
    /\ startPc = "sleep"
    /\ startLog = <<>>
    /\ startPeers \in 0..MaxPeers
    /\ startLeft = startPeers

StartStep ==
    \/ run_sleep
    \/ \E res \in Results : run_keyvault(res)
    \/ run_create
    \/ run_events_service
    \/ \E res \in Results : start_listen(res)
    \/ \E res \in Results : start_dial(res)
    \/ \E res \in Results : start_subscribe(res)
    \/ start_spawn
    \/ \E res \in Results : run_server(res)

\* Startup, then the loop it spawned taking the swarm's events.
StartNext ==
    \/ StartStep
    \/ handle_incoming_messages_lock
    \/ handle_incoming_messages_event
    \/ CollabStep
    \/ SwarmStep

StartSpec == StartInit /\ [][StartNext]_vars

\* The loop, the swarm's events and producers whose Orders can be told
\* apart.
OwnNext ==
    \/ LoopStep \/ CollabStep \/ SwarmStep
    \/ SubmitOwn
    \/ \E p \in Producers : publish_flush(p)
    \/ drop_sender

OwnSpec == Init /\ [][OwnNext]_vars

LiveCallers == {"c1"}

\* The gossip core in a runtime that may shut down, with one concurrent
\* caller.
ShutdownNext ==
    \/ LoopStep \/ CollabStep \/ ProducerStep \/ CallerStep(LiveCallers) \/ SwarmStep
    \/ loop_dropped

ShutdownSpec == Init /\ [][ShutdownNext]_vars

\* Scheduling: every task that can take a step takes one (the executor polls
\* a woken task); select! picks among ready arms pseudo-randomly, so an arm
\* that is ready again and again is taken; a task that finds the lock free
\* again and again gets it.
Fairness ==
    /\ SF_vars(handle_incoming_messages_lock)
    /\ SF_vars(handle_incoming_messages_event)
    /\ SF_vars(OrderArm)
    /\ WF_vars(handle_incoming_messages_closed)
    /\ WF_vars(CollabStep)
    /\ WF_vars(CallerOpStep(LiveCallers))

\* The gossip core under fair scheduling, with one concurrent caller.
FairNext == LoopStep \/ CollabStep \/ ProducerStep \/ CallerStep(LiveCallers) \/ SwarmStep

FairSpec == Init /\ [][FairNext]_vars /\ Fairness

\* The same, with a caller that finds the lock free again and again
\* getting it.
LockFairSpec ==
    Init /\ [][FairNext]_vars /\ Fairness /\ SF_vars(CallerLock(LiveCallers))

\* ------------------------------------------------------------ properties

\* C1: at most one task is inside a critical section of the swarm at any
\* time (the loop's iteration, listen, each dial of dial_peers, subscribe),
\* and an Order is taken and published to the swarm only by the loop while
\* it holds the lock.
C1_MutualExclusion ==
    /\ [](Cardinality(InCritical) <= 1 /\ (InCritical # {} => mutexLocked))
    /\ [][Len(queue') < Len(queue)
            => loopPc = "select" /\ mutexLocked /\ InCritical = {"loop"}]_vars

\* The loop is inside its critical section with an Order to publish while
\* both callers wait for the lock.
C1_Witness ==
    /\ loopPc = "select"
    /\ queue # <<>>
    /\ \A c \in Callers : callerPc[c] = "wait"

\* C2: every swarm publish carries the oldest Order submitted and not yet
\* published (the original pair, in submission order, never one more than
\* were submitted), and once the producers stop submitting every submitted
\* Order has been published.
C2_OrdersPublishedInOrder ==
    /\ []inOrder
    /\ ([]<>(outstanding = <<>>) \/ []<><<Submit>>_vars)

\* Two Orders were enqueued, the second beyond the buffer, and both have
\* been published while their producers are still inside publish.
C2_Witness ==
    /\ lastOutcome = "published"
    /\ outstanding = <<>>
    /\ inOrder
    /\ \A p \in Producers : prodPc[p] = "flush"

\* C3: when the loop takes a gossip message, handle_witnessed_event is
\* invoked, with the decoded WitnessedEvent, exactly if the payload decodes;
\* after a payload that does not decode the collaborator is not invoked and
\* the loop is back at the top of its loop, the guard dropped.
C3_HandOffOnlyDecoded ==
    /\ [][(loopPc = "select" /\ inbox # <<>> /\ inbox' = <<>>
            /\ Head(inbox).kind = "Message")
          => LET r == Deserialize(Wire[Head(inbox).data])
             IN IF r.ok
                THEN collabPc' = "handling" /\ collabEvent' = r.val
                     /\ loopPc' = "await_handle"
                ELSE collabPc' = "idle" /\ collabEvent' = NoEvent
                     /\ loopPc' = "lock" /\ ~mutexLocked'
                     /\ lastOutcome' = "decode_err"]_vars
    /\ [](collabPc # "idle"
            => \E d \in WireIds : Deserialize(Wire[d]).ok
                                  /\ collabEvent = Deserialize(Wire[d]).val)

\* After a payload that failed to decode the loop is at its next
\* iteration, with another event ready.
C3_Witness ==
    /\ lastOutcome = "decode_err"
    /\ loopPc = "lock"
    /\ collabPc = "idle"
    /\ inbox # <<>>

\* C4: under fair scheduling, if Orders are queued again and again the loop
\* publishes again and again, and if swarm events are ready again and again
\* the loop takes events again and again: neither arm of the select!
\* starves the other.
C4_NoStarvation ==
    /\ ([]<>(queue # <<>>) => []<><<OrderArm>>_vars)
    /\ ([]<>(inbox # <<>>) => []<><<handle_incoming_messages_event>>_vars)

\* The loop is in its select! with both an event and an Order ready.
C4_Witness ==
    /\ loopPc = "select"
    /\ SelectArms = {"event", "order"}

\* C5 (as claimed): while the collaborator's handling of a WitnessedEvent
\* has not completed, the loop has ended that iteration and does not hold
\* the swarm's lock.
C5_HandOffNotAwaited ==
    collabPc # "idle" => (loopPc # "await_handle" /\ "loop" \notin InCritical)

\* C6 (as claimed): in no reachable state is a producer blocked in publish
\* on the full queue while the loop, the only task that drains the queue,
\* waits for that producer.
C6_NoProducerLoopDeadlock ==
    ~(loopPc = "await_handle" /\ collabPc = "flush" /\ IsParked(Collab))

\* C7: a request whose event_id is not 32 bytes long gets an error response
\* and handle_client_request is not invoked for it.
C7_WrongLengthRejected ==
    \A h \in Handlers :
        (reqPc[h] # "idle" /\ Len(EventIds[reqInput[h].id]) # IdBytes)
        => /\ reqPc[h] = "done"
           /\ reqCalls[h] = <<>>
           /\ reqResp[h].kind \in {"unknown", "aborted"}

\* A request with a remote address and a 33-byte event_id was answered
\* with the invalid-event_id error.
C7_Witness ==
    \E h \in Handlers :
        /\ reqPc[h] = "done"
        /\ reqInput[h].addr
        /\ Len(EventIds[reqInput[h].id]) = 33
        /\ reqResp[h] = [kind |-> "unknown", msg |-> "invalid event_id sent"]

\* C8 (as claimed): for every request with a 32-byte event_id,
\* handle_client_request has been invoked exactly once, with those bytes.
C8_EveryWellFormedForwarded ==
    \A h \in Handlers :
        (reqPc[h] # "idle" /\ Len(EventIds[reqInput[h].id]) = IdBytes)
        => reqCalls[h] = <<EventIds[reqInput[h].id]>>

\* C8 (amended): for every request with a 32-byte event_id whose remote
\* address is known, handle_client_request has been invoked exactly once,
\* with those bytes in the same order; a request whose remote address is
\* not known is aborted without any invocation.
C8_ForwardedWhenAddressed ==
    \A h \in Handlers :
        /\ (reqPc[h] # "idle" /\ reqInput[h].addr
              /\ Len(EventIds[reqInput[h].id]) = IdBytes)
           => reqCalls[h] = <<EventIds[reqInput[h].id]>>
        /\ (reqPc[h] # "idle" /\ ~reqInput[h].addr)
           => (reqCalls[h] = <<>> /\ reqResp[h].kind = "aborted")

\* handle_client_request is being awaited with the second 32-byte
\* identifier of the table.
C8_Witness ==
    \E h \in Handlers :
        /\ reqPc[h] = "called"
        /\ reqInput[h].id = 6
        /\ reqCalls[h] = <<EventIds[6]>>

RecoverableOutcomes ==
    {"publish_err", "collab_err", "subscribed", "new_listen_addr", "other"}

\* C10: after an iteration that ended in a failed swarm publish, an error
\* of the collaborator, a subscription or new-listen-address event or any
\* other event, the loop has not ended: it is at the top of its loop, about
\* to lock the swarm again, and does not hold the guard.
C10_RecoverableKeepsLoop ==
    lastOutcome \in RecoverableOutcomes
    => (loopPc = "lock" /\ "loop" \notin InCritical)

\* The swarm publish has just failed; the loop is about to lock again and
\* the lock is free.
C10_Witness ==
    /\ lastOutcome = "publish_err"
    /\ loopPc = "lock"
    /\ ~mutexLocked

\* C11: publish, subscribe and dial_peers return normally whatever happens:
\* a producer is never left panicked by a failed enqueue (the queue closed),
\* and a caller leaves subscribe or a dial, failed or not, by returning or by
\* going on to the next dial.
C11_FaultsContained ==
    /\ [](\A p \in Producers : prodPc[p] \in Returned \cup {"flush"})
    /\ [][\A c \in Callers :
            (callerPc[c] = "cs" /\ callerOp[c] \in {"subscribe", "dial"}
               /\ callerPc'[c] # "cs")
            => callerPc'[c] = IF callerOp[c] = "dial" /\ dialLeft[c] > 1
                              THEN "wait" ELSE "idle"]_vars

\* The Receiver is gone, a producer's send has failed and been logged, and
\* that producer's publish has returned.
C11_Witness ==
    /\ loopPc = "ended"
    /\ prodPc["p1"] = "logged"
    /\ callerPc["c1"] = "idle"

Dialed == SelectSeq(startLog, LAMBDA e : e.step = "dial")

\* C12: when no validator keys are found, run returns normally and nothing
\* of the subsystem has started: no listen, dial or subscribe was done, the
\* loop was not spawned and the endpoint was not started.
C12_ObserverMode ==
    (\E i \in 1..Len(startLog) : startLog[i] = Step("keys", 0, "err"))
    => /\ startPc = "returned"
       /\ startLog = <<Step("keys", 0, "err")>>
       /\ loopPc = "unspawned"
       /\ subscriptions = {}
       /\ ~mutexLocked

\* run has returned after KeyVault::new failed.
C12_Witness ==
    /\ startPc = "returned"
    /\ Logged("keys")
    /\ ~Logged("server")

\* C13: dial_peers dials the addresses of the batch in the order given,
\* each once, and when it has returned every address has been dialed,
\* whatever the results of the dials.
C13_EveryPeerDialedOnce ==
    /\ Len(Dialed) <= startPeers
    /\ \A i \in 1..Len(Dialed) : Dialed[i].arg = i
    /\ Logged("subscribe") => Len(Dialed) = startPeers

\* The first address of a full batch failed to dial, the last one was
\* dialed successfully, and dial_peers has returned.
C13_Witness ==
    /\ startPeers = MaxPeers
    /\ Logged("subscribe")
    /\ Dialed[1].res = "err"
    /\ Dialed[startPeers] = Step("dial", startPeers, "ok")

\* C14: when listen fails, startup has panicked with the failed listen as
\* its last step: no peer was dialed, no topic subscribed, the loop not
\* spawned and the endpoint not started.
C14_ListenFailureFatal ==
    (\E i \in 1..Len(startLog) :
        startLog[i].step = "listen" /\ startLog[i].res = "err")
    => /\ startPc = "panicked"
       /\ startLog[Len(startLog)].step = "listen"
       /\ Dialed = <<>>
       /\ subscriptions = {}
       /\ loopPc = "unspawned"

\* Startup has panicked in listen, with peers configured.
C14_Witness ==
    /\ startPc = "panicked"
    /\ startPeers > 0
    /\ startLog[Len(startLog)] = Step("listen", 0, "err")

\* The startup history is ordered by `rank`: a step never follows one of
\* a higher rank, and only dials repeat.
OrderedBy(rank) ==
    \A i, j \in 1..Len(startLog) :
        i < j => \/ rank[startLog[i].step] < rank[startLog[j].step]
                 \/ startLog[i].step = "dial" /\ startLog[j].step = "dial"

C15_PerProducerOrder ==
    [][Len(outstanding') < Len(outstanding)
        => \E i \in 1..Len(outstanding) :
              /\ outstanding' = Without(outstanding, i)
              /\ \A j \in 1..(i - 1) :
                    Owner(outstanding[j]) # Owner(outstanding[i])]_vars

\* Three Orders of the two producers were queued; the loop has published the
\* oldest, and an Order of p2 and, behind it, one of p1 are still to be
\* published.
C15_Witness ==
    /\ lastOutcome = "published"
    /\ outstanding = << <<"WitnessedEvent", 21>>, <<"Other", 12>> >>
    /\ queue = outstanding
    /\ inOrder

\* C16: every swarm publish attempt, successful or failed, takes exactly
\* one Order out of the queue for good, and the queue loses an Order only to
\* a publish attempt: a failed publish is not retried and no Order is
\* published twice.
C16_ConsumedExactlyOnce ==
    [][/\ (lastOutcome' \in {"published", "publish_err"} /\ lastOutcome = "none")
           => /\ Len(queue') = Len(queue) - 1
              /\ Len(outstanding') = Len(outstanding) - 1
              /\ \E i \in 1..Len(queue) : queue' = Without(queue, i)
       /\ Len(queue') < Len(queue)
           => (lastOutcome' \in {"published", "publish_err"}
               /\ lastOutcome = "none")]_vars

\* The only Order submitted has failed to publish and is gone: nothing is
\* queued and nothing is left to publish.
C16_Witness ==
    /\ lastOutcome = "publish_err"
    /\ queue = <<>>
    /\ outstanding = <<>>
    /\ rootAlive

\* C17 (as claimed): decoding the encoding of a WitnessedEvent, empty
\* signature and public key included, gives that WitnessedEvent back, and a
\* payload the loop decodes and hands off is exactly the encoding of what
\* it decoded to: only byte sequences of the exact layout decode.
C17_EncodingExact ==
    /\ [](\A we \in {EventEmpty, EventFull} :
            Deserialize(Serialize(we)) = [ok |-> TRUE, val |-> we])
    /\ [][(loopPc = "select" /\ inbox # <<>> /\ inbox' = <<>>
            /\ Head(inbox).kind = "Message" /\ collabPc' = "handling")
          => Serialize(collabEvent') = Wire[Head(inbox).data]]_vars

\* The response the collaborator's return alone determines.
FromCollaborator(h) ==
    /\ reqRet[h] # NoReturn
    /\ reqResp[h] = IF reqRet[h].ok
                    THEN [kind |-> "ok", status |-> reqRet[h].val]
                    ELSE [kind |-> "aborted", msg |-> reqRet[h].val]

\* C18 (as claimed): every answered request with a 32-byte event_id has the
\* response the collaborator determined: Ok with the status it returned, or
\* aborted with its failure reason.
C18_DeterminedByCollaborator ==
    \A h \in Handlers :
        (reqPc[h] = "done" /\ Len(EventIds[reqInput[h].id]) = IdBytes)
        => FromCollaborator(h)

\* C18 (amended): every answered request with a 32-byte event_id and a
\* known remote address has the response the collaborator determined; a
\* request without a remote address is answered aborted, for the missing
\* origin address, and the collaborator has returned nothing for it.
C18_DeterminedWhenAddressed ==
    \A h \in Handlers :
        /\ (reqPc[h] = "done" /\ reqInput[h].addr
              /\ Len(EventIds[reqInput[h].id]) = IdBytes)
           => FromCollaborator(h)
        /\ (reqPc[h] = "done" /\ ~reqInput[h].addr)
           => /\ reqRet[h] = NoReturn
              /\ reqResp[h] = [kind |-> "aborted",
                    msg |-> "Malformed Request, can't retreive Origin address"]

\* A request with a 32-byte event_id was answered aborted with the reason
\* the collaborator failed with, and another with the status it returned.
C18_Witness ==
    /\ reqPc["h1"] = "done" /\ reqInput["h1"] = [addr |-> TRUE, id |-> 5]
    /\ reqResp["h1"] = [kind |-> "aborted", msg |-> "store failure"]
    /\ reqPc["h2"] = "done" /\ reqInput["h2"] = [addr |-> TRUE, id |-> 6]
    /\ reqResp["h2"] = [kind |-> "ok", status |-> "pending"]

\* C20 (as claimed): under fair scheduling a caller of listen, dial_peers or
\* subscribe that waits for the swarm's lock eventually gets it.
C20_CallersEventuallyLock ==
    \A c \in LiveCallers : (callerPc[c] = "wait") ~> (callerPc[c] = "cs")

====
